---------------------------- MODULE Spec2Model ----------------------------
(***************************************************************************)
(* A model of the to-do application: the task store (load_tasks /          *)
(* save_tasks), the id allocator (generate_unique_id), the query functions *)
(* of tasks.py and the interaction cycle of app.py (main).                 *)
(*                                                                         *)
(*   Spec       the cycles of main() that change the collection            *)
(*   SpecView   the cycles of main() that change what is displayed         *)
(*   SpecQuery  the query functions of tasks.py, called directly           *)
(*   SpecStore  load_tasks and save_tasks, called directly                 *)
(*                                                                         *)
(* Text that the code inspects character by character (titles, due dates,  *)
(* search queries, ...) is a sequence of one-character strings.  A task is *)
(* a record; a key that the dictionary does not hold is a field that the   *)
(* record does not have.                                                   *)
(***************************************************************************)
EXTENDS Integers, Sequences, FiniteSets, TLC

VARIABLES
    file,            \* content of tasks.json: NoFile or a sequence of JSON tokens
    tasks,           \* main()'s `tasks` list when the last cycle finished
    now,             \* index into Clock: what datetime.now() returns
    widgets,         \* values of the filter/search/sort widgets read by main()
    filtered_tasks,  \* main()'s `filtered_tasks`: the list that is displayed
    last,            \* trace of the last cycle: what it loaded, allocated, saved
    assigned,        \* history: every id a created task has ever been given
    call             \* a direct call of a tasks.py function: arguments and result

vars == <<file, tasks, now, widgets, filtered_tasks, last, assigned, call>>

-----------------------------------------------------------------------------
(* Bounds of the model                                                     *)

\* Largest id the allocator is allowed to hand out in the application model.
MaxId == 2

\* Longest task list passed to a directly called tasks.py function.
MaxLen == 2

-----------------------------------------------------------------------------
(* Python text                                                             *)

Digits == <<"0", "1", "2", "3", "4", "5", "6", "7", "8", "9">>

\* The characters that occur in compared text, in code point order.
CodePoints == <<" ", "-", "/">> \o Digits \o <<":", "H", "a", "b", "c">>

Ord(c) == CHOOSE i \in DOMAIN CodePoints : CodePoints[i] = c

IsDigit(c) == \E i \in DOMAIN Digits : Digits[i] = c

DigitVal(c) == (CHOOSE i \in DOMAIN Digits : Digits[i] = c) - 1

UpperCase == <<"A", "B", "C", "D", "E", "F", "G", "H", "I", "J", "K", "L", "M",
               "N", "O", "P", "Q", "R", "S", "T", "U", "V", "W", "X", "Y", "Z">>

LowerCase == <<"a", "b", "c", "d", "e", "f", "g", "h", "i", "j", "k", "l", "m",
               "n", "o", "p", "q", "r", "s", "t", "u", "v", "w", "x", "y", "z">>

\* str.lower()
Lower(s) ==
    [i \in DOMAIN s |->
        IF \E k \in DOMAIN UpperCase : UpperCase[k] = s[i]
        THEN LowerCase[CHOOSE k \in DOMAIN UpperCase : UpperCase[k] = s[i]]
        ELSE s[i]]

\* `needle in hay` for str
Contains(hay, needle) ==
    \E i \in 0..(Len(hay) - Len(needle)) :
        SubSeq(hay, i + 1, i + Len(needle)) = needle

\* `a < b` for str: lexicographic by code point, a proper prefix is smaller
StrLess(a, b) ==
    \E i \in 1..(Len(a) + 1) :
        /\ \A j \in 1..(i - 1) : j <= Len(b) /\ a[j] = b[j]
        /\ \/ i = Len(a) + 1 /\ Len(b) >= i
           \/ i <= Len(a) /\ i <= Len(b) /\ Ord(a[i]) < Ord(b[i])

\* `a < b` for tuples of integers of one length
TupleLess(a, b) ==
    \E i \in DOMAIN a :
        /\ \A j \in 1..(i - 1) : a[j] = b[j]
        /\ a[i] < b[i]

\* dict.get(key, default)
Get(task, key, default) == IF key \in DOMAIN task THEN task[key] ELSE default

-----------------------------------------------------------------------------
(* datetime                                                                *)

\* A datetime is a record [y, m, d, h, mi, s, us]; a date parsed by strptime
\* is the midnight of that day.
Midnight(y, m, d) == [y |-> y, m |-> m, d |-> d, h |-> 0, mi |-> 0, s |-> 0, us |-> 0]

\* datetime.max
DatetimeMax ==
    [y |-> 9999, m |-> 12, d |-> 31, h |-> 23, mi |-> 59, s |-> 59, us |-> 999999]

DtTuple(dt) == <<dt.y, dt.m, dt.d, dt.h, dt.mi, dt.s, dt.us>>

DtLess(a, b) == TupleLess(DtTuple(a), DtTuple(b))

DtLeq(a, b) == a = b \/ DtLess(a, b)

IsLeap(y) == (y % 4 = 0 /\ y % 100 # 0) \/ y % 400 = 0

DaysInMonth(y, m) ==
    IF m = 2 THEN (IF IsLeap(y) THEN 29 ELSE 28)
    ELSE IF m \in {4, 6, 9, 11} THEN 30 ELSE 31

\* dt + timedelta(days=1)
PlusOneDay(dt) ==
    IF dt.d < DaysInMonth(dt.y, dt.m) THEN [dt EXCEPT !.d = dt.d + 1]
    ELSE IF dt.m < 12 THEN [dt EXCEPT !.d = 1, !.m = dt.m + 1]
    ELSE [dt EXCEPT !.d = 1, !.m = 1, !.y = dt.y + 1]

Pad2(n) == <<Digits[(n \div 10) + 1], Digits[(n % 10) + 1]>>

Pad4(n) == Pad2(n \div 100) \o Pad2(n % 100)

\* dt.strftime("%Y-%m-%d")
StrfDate(dt) == Pad4(dt.y) \o <<"-">> \o Pad2(dt.m) \o <<"-">> \o Pad2(dt.d)

\* dt.strftime("%Y-%m-%d H:%M:%S"): the H of the format is a literal letter
StrfCreatedAt(dt) ==
    StrfDate(dt) \o <<" ", "H", ":">> \o Pad2(dt.mi) \o <<":">> \o Pad2(dt.s)

\* The regular expressions strptime builds for %m and %d.
MonthDirective(x) ==
    \/ Len(x) = 2 /\ x[1] = "1" /\ x[2] \in {"0", "1", "2"}
    \/ Len(x) = 2 /\ x[1] = "0" /\ IsDigit(x[2]) /\ x[2] # "0"
    \/ Len(x) = 1 /\ IsDigit(x[1]) /\ x[1] # "0"

DayDirective(x) ==
    \/ Len(x) = 2 /\ x[1] = "3" /\ x[2] \in {"0", "1"}
    \/ Len(x) = 2 /\ x[1] \in {"1", "2"} /\ IsDigit(x[2])
    \/ Len(x) = 2 /\ x[1] = "0" /\ IsDigit(x[2]) /\ x[2] # "0"
    \/ Len(x) = 1 /\ IsDigit(x[1]) /\ x[1] # "0"
    \/ Len(x) = 2 /\ x[1] = " " /\ IsDigit(x[2]) /\ x[2] # "0"

NumberOf(x) ==
    IF Len(x) = 1 THEN DigitVal(x[1])
    ELSE IF x[1] = " " THEN DigitVal(x[2])
    ELSE 10 * DigitVal(x[1]) + DigitVal(x[2])

\* The split of a text that matches  \d\d\d\d-<month>-<day>  and nothing
\* more: the lengths of its month and day parts.
DateSplits(text) ==
    {p \in {1, 2} \X {1, 2} :
        /\ Len(text) = 6 + p[1] + p[2]
        /\ \A i \in 1..4 : IsDigit(text[i])
        /\ text[5] = "-"
        /\ MonthDirective(SubSeq(text, 6, 5 + p[1]))
        /\ text[6 + p[1]] = "-"
        /\ DayDirective(SubSeq(text, 7 + p[1], 6 + p[1] + p[2]))}

\* datetime.strptime(text, "%Y-%m-%d"): [ok |-> TRUE, dt |-> midnight of the
\* day], or [ok |-> FALSE] where strptime raises ValueError.
strptime(text) ==
    IF DateSplits(text) = {} THEN [ok |-> FALSE]
    ELSE LET p  == CHOOSE q \in DateSplits(text) : TRUE
             yr == 1000 * DigitVal(text[1]) + 100 * DigitVal(text[2])
                   + 10 * DigitVal(text[3]) + DigitVal(text[4])
             mo == NumberOf(SubSeq(text, 6, 5 + p[1]))
             dy == NumberOf(SubSeq(text, 7 + p[1], 6 + p[1] + p[2]))
         IN  IF yr >= 1 /\ dy <= DaysInMonth(yr, mo)
             THEN [ok |-> TRUE, dt |-> Midnight(yr, mo, dy)]
             ELSE [ok |-> FALSE]

-----------------------------------------------------------------------------
(* sorted(): a stable sort by key                                          *)

\* The indices of `keys` (tuples of integers) in sorted order, built by
\* inserting each key after every key that is not greater.
RECURSIVE SortedIndices(_, _)
SortedIndices(keys, n) ==
    IF n = 0 THEN <<>>
    ELSE LET prev == SortedIndices(keys, n - 1)
             pos  == Cardinality({i \in DOMAIN prev :
                                     ~TupleLess(keys[n], keys[prev[i]])})
         IN  SubSeq(prev, 1, pos) \o <<n>> \o SubSeq(prev, pos + 1, n - 1)

sorted(items, keys) ==
    LET idx == SortedIndices(keys, Len(items))
    IN  [i \in DOMAIN items |-> items[idx[i]]]

-----------------------------------------------------------------------------
(* tasks.py: the query functions                                           *)

Low == <<"L", "o", "w">>
Medium == <<"M", "e", "d", "i", "u", "m">>
High == <<"H", "i", "g", "h">>

filter_tasks_by_priority(ts, priority) ==
    SelectSeq(ts, LAMBDA t : "priority" \in DOMAIN t /\ t.priority = priority)

filter_tasks_by_category(ts, category) ==
    SelectSeq(ts, LAMBDA t : "category" \in DOMAIN t /\ t.category = category)

\* task.get("completed") is None for a task without the key, and None
\* equals neither True nor False.
filter_tasks_by_completion(ts, completed) ==
    SelectSeq(ts, LAMBDA t : "completed" \in DOMAIN t /\ t.completed = completed)

search_tasks(ts, query) ==
    LET q == Lower(query)
    IN  SelectSeq(ts, LAMBDA t :
            \/ Contains(Lower(Get(t, "title", <<>>)), q)
            \/ Contains(Lower(Get(t, "description", <<>>)), q))

\* The due date is compared with today's date as text.
get_overdue_tasks(ts, dtNow) ==
    LET today == StrfDate(dtNow)
    IN  SelectSeq(ts, LAMBDA t :
            /\ ~Get(t, "completed", FALSE)
            /\ StrLess(Get(t, "due_date", <<>>), today))

\* Variant: a due date at the very moment of the call is left out.
get_due_soon_tasks_after(ts, dtNow) ==
    LET tomorrow == PlusOneDay(dtNow)
    IN  SelectSeq(ts, LAMBDA t :
            /\ ~Get(t, "completed", FALSE)
            /\ strptime(Get(t, "due_date", <<>>)).ok
            /\ LET due_date == strptime(Get(t, "due_date", <<>>)).dt
               IN  DtLess(dtNow, due_date) /\ DtLeq(due_date, tomorrow))

get_due_soon_tasks(ts, dtNow) ==
    LET tomorrow == PlusOneDay(dtNow)
    IN  SelectSeq(ts, LAMBDA t :
            /\ ~Get(t, "completed", FALSE)
            /\ Get(t, "due_date", <<>>) # <<>>
            /\ strptime(Get(t, "due_date", <<>>)).ok
            /\ LET due_date == strptime(Get(t, "due_date", <<>>)).dt
               IN  DtLeq(dtNow, due_date) /\ DtLeq(due_date, tomorrow))

priority_order(p) ==
    IF p = High THEN 1 ELSE IF p = Medium THEN 2 ELSE 3

sort_tasks_by_priority(ts) ==
    sorted(ts, [i \in DOMAIN ts |-> <<priority_order(Get(ts[i], "priority", Low))>>])

\* Variant: a missing or malformed date becomes datetime.min.
parse_due_date_min(task) ==
    LET r == strptime(Get(task, "due_date", <<>>))
    IN  IF r.ok THEN r.dt ELSE Midnight(1, 1, 1)

parse_due_date(task) ==
    LET r == strptime(Get(task, "due_date", <<>>))
    IN  IF r.ok THEN r.dt ELSE DatetimeMax

sort_tasks_by_due_date(ts) ==
    sorted(ts, [i \in DOMAIN ts |-> DtTuple(parse_due_date(ts[i]))])

-----------------------------------------------------------------------------
(* json: the text of tasks.json as a sequence of tokens                    *)

\* A token is a tuple whose first element is its kind: "[", "]", "{", "}",
\* ",", ":", <<"ws", n>> (white space: a line break and n blanks),
\* <<"str", chars>> (the characters between the quotes, escapes included),
\* <<"int", n>>, "true", "false", "null", and <<"bare", chars>> for text
\* that is no JSON token at all.
Tok(kind) == <<kind>>

\* The keys of a task in the order main() inserts them.
TaskKeys ==
    <<"id", "title", "description", "priority", "category", "due_date",
      "completed", "created_at">>

\* The characters json writes with a backslash in front.
Special == {"\"", "\\"}

Plain(s) == \A i \in DOMAIN s : s[i] \notin Special

\* json's encoding of a str: a quote or a backslash gets a backslash.
RECURSIVE Escape(_)
Escape(s) ==
    IF Plain(s) THEN s
    ELSE (IF Head(s) \in Special THEN <<"\\", Head(s)>> ELSE <<Head(s)>>)
         \o Escape(Tail(s))

\* json's decoding of the characters between the quotes: a backslash must
\* be followed by a quote or a backslash, a quote must follow a backslash.
RECURSIVE Unescape(_)
Unescape(e) ==
    IF Plain(e) THEN [ok |-> TRUE, val |-> e]
    ELSE IF Head(e) = "\"" THEN [ok |-> FALSE]
    ELSE IF Head(e) = "\\"
         THEN IF Len(e) >= 2 /\ e[2] \in Special
              THEN LET r == Unescape(Tail(Tail(e)))
                   IN  IF r.ok THEN [ok |-> TRUE, val |-> <<e[2]>> \o r.val] ELSE r
              ELSE [ok |-> FALSE]
    ELSE LET r == Unescape(Tail(e))
         IN  IF r.ok THEN [ok |-> TRUE, val |-> <<Head(e)>> \o r.val] ELSE r

\* The value of a task's key as json.dump writes it: id is an int,
\* completed a bool, every other field a str.
DumpField(key, value) ==
    IF key = "id" THEN <<"int", value>>
    ELSE IF key = "completed" THEN (IF value THEN Tok("true") ELSE Tok("false"))
    ELSE <<"str", Escape(value)>>

RECURSIVE DumpMembers(_, _, _)
DumpMembers(task, i, first) ==
    IF i > Len(TaskKeys) THEN <<>>
    ELSE IF TaskKeys[i] \notin DOMAIN task THEN DumpMembers(task, i + 1, first)
    ELSE (IF first THEN <<>> ELSE <<Tok(",")>>)
         \o <<<<"ws", 4>>, <<"str", TaskKeys[i]>>, Tok(":"),
              DumpField(TaskKeys[i], task[TaskKeys[i]])>>
         \o DumpMembers(task, i + 1, FALSE)

DumpTask(task) ==
    IF DOMAIN task = {} THEN <<Tok("{"), Tok("}")>>
    ELSE <<Tok("{")>> \o DumpMembers(task, 1, TRUE) \o <<<<"ws", 2>>, Tok("}")>>

RECURSIVE DumpElements(_, _)
DumpElements(ts, i) ==
    IF i > Len(ts) THEN <<>>
    ELSE (IF i = 1 THEN <<>> ELSE <<Tok(",")>>)
         \o <<<<"ws", 2>>>> \o DumpTask(ts[i]) \o DumpElements(ts, i + 1)

\* json.dump(tasks, f, indent=2)
json_dump(ts) ==
    IF ts = <<>> THEN <<Tok("["), Tok("]")>>
    ELSE <<Tok("[")>> \o DumpElements(ts, 1) \o <<<<"ws", 0>>, Tok("]")>>

Fail == [ok |-> FALSE]

\* Python's None, the value of JSON's null
None == "None"

\* The first position from i on that holds no white space.
RECURSIVE SkipWs(_, _)
SkipWs(toks, i) ==
    IF i <= Len(toks) /\ toks[i][1] = "ws" THEN SkipWs(toks, i + 1) ELSE i

KindAt(toks, i) == IF i <= Len(toks) THEN toks[i][1] ELSE "eof"

\* The JSON decoder: [ok, val, next] for the value that starts at token i.
RECURSIVE ParseValue(_, _)
RECURSIVE ParseElements(_, _, _)
RECURSIVE ParseMembers(_, _, _)

ParseValue(toks, i) ==
    LET j == SkipWs(toks, i)
        k == KindAt(toks, j)
    IN  IF k = "int" THEN [ok |-> TRUE, val |-> toks[j][2], next |-> j + 1]
        ELSE IF k = "true" THEN [ok |-> TRUE, val |-> TRUE, next |-> j + 1]
        ELSE IF k = "false" THEN [ok |-> TRUE, val |-> FALSE, next |-> j + 1]
        ELSE IF k = "null" THEN [ok |-> TRUE, val |-> None, next |-> j + 1]
        ELSE IF k = "str"
             THEN LET u == Unescape(toks[j][2])
                  IN  IF u.ok THEN [ok |-> TRUE, val |-> u.val, next |-> j + 1]
                      ELSE Fail
        ELSE IF k = "["
             THEN IF KindAt(toks, SkipWs(toks, j + 1)) = "]"
                  THEN [ok |-> TRUE, val |-> <<>>, next |-> SkipWs(toks, j + 1) + 1]
                  ELSE ParseElements(toks, j + 1, <<>>)
        ELSE IF k = "{"
             THEN IF KindAt(toks, SkipWs(toks, j + 1)) = "}"
                  THEN [ok |-> TRUE, val |-> <<>>, next |-> SkipWs(toks, j + 1) + 1]
                  ELSE ParseMembers(toks, j + 1, <<>>)
        ELSE Fail

ParseElements(toks, i, acc) ==
    LET v == ParseValue(toks, i)
    IN  IF ~v.ok THEN Fail
        ELSE LET j == SkipWs(toks, v.next)
                 k == KindAt(toks, j)
             IN  IF k = "," THEN ParseElements(toks, j + 1, Append(acc, v.val))
                 ELSE IF k = "]"
                      THEN [ok |-> TRUE, val |-> Append(acc, v.val), next |-> j + 1]
                 ELSE Fail

ParseMembers(toks, i, acc) ==
    LET j == SkipWs(toks, i)
        c == SkipWs(toks, j + 1)
    IN  IF KindAt(toks, j) # "str" \/ KindAt(toks, c) # ":" THEN Fail
        ELSE LET v == ParseValue(toks, c + 1)
             IN  IF ~v.ok THEN Fail
                 ELSE LET obj == (toks[j][2] :> v.val) @@ acc
                          e   == SkipWs(toks, v.next)
                          k   == KindAt(toks, e)
                      IN  IF k = "," THEN ParseMembers(toks, e + 1, obj)
                          ELSE IF k = "}"
                               THEN [ok |-> TRUE, val |-> obj, next |-> e + 1]
                          ELSE Fail

\* json.load(f): the document's value, or JSONDecodeError (ok = FALSE) when
\* the text is no JSON value or anything but white space follows the value.
json_load(toks) ==
    LET v == ParseValue(toks, 1)
    IN  IF v.ok /\ SkipWs(toks, v.next) > Len(toks) THEN v ELSE Fail

-----------------------------------------------------------------------------
(* tasks.py: the store and the id allocator                                *)

\* The path holds no file.
NoFile == [exists |-> FALSE]

FileOf(toks) == [exists |-> TRUE, content |-> toks]

\* Variant: no handler for json.JSONDecodeError.
load_tasks_unhandled(f) ==
    IF ~f.exists THEN [value |-> <<>>, error |-> "none"]
    ELSE LET r == json_load(f.content)
         IN  IF r.ok THEN [value |-> r.val, error |-> "none"]
             ELSE [value |-> <<>>, error |-> "JSONDecodeError"]

\* load_tasks(): what it returns and the exception that escapes it, if any.
load_tasks(f) ==
    IF ~f.exists THEN [value |-> <<>>, error |-> "none"]
    ELSE LET r == json_load(f.content)
         IN  IF r.ok THEN [value |-> r.val, error |-> "none"]
             ELSE [value |-> <<>>, error |-> "none"]

\* Variant: the file is opened with "a" and the document is appended.
save_tasks_append(ts, f) ==
    FileOf((IF f.exists THEN f.content ELSE <<>>) \o json_dump(ts))

\* save_tasks(): the file after open(file_path, "w") and json.dump.
save_tasks(ts, f) == FileOf(json_dump(ts))

RECURSIVE MaxOf(_)
MaxOf(S) ==
    LET x == CHOOSE y \in S : TRUE
    IN  IF S = {x} THEN x
        ELSE LET m == MaxOf(S \ {x}) IN IF x > m THEN x ELSE m

\* Variant: the number of tasks plus one.
generate_unique_id_count(ts) == Len(ts) + 1

\* Variant: the smallest id no task holds.
generate_unique_id_gap(ts) ==
    CHOOSE n \in 1..(Len(ts) + 1) :
        /\ \A i \in DOMAIN ts : ts[i].id # n
        /\ \A m \in 1..(n - 1) : \E i \in DOMAIN ts : ts[i].id = m

generate_unique_id(ts) ==
    IF ts = <<>> THEN 1
    ELSE MaxOf({ts[i].id : i \in DOMAIN ts}) + 1

-----------------------------------------------------------------------------
(* app.py: main(), one run per interaction cycle                           *)

All == <<"A", "l", "l">>
Work == <<"W", "o", "r", "k">>
Personal == <<"P", "e", "r", "s", "o", "n", "a", "l">>
School == <<"S", "c", "h", "o", "o", "l">>
Other == <<"O", "t", "h", "e", "r">>

At(y, m, d, h, mi, s, us) ==
    [y |-> y, m |-> m, d |-> d, h |-> h, mi |-> mi, s |-> s, us |-> us]

\* The readings of datetime.now() the application model steps through, in
\* order: an afternoon, the following midnight and the day after that.
Clock ==
    <<At(2026, 10, 31, 12, 30, 5, 0),
      At(2026, 11, 1, 0, 0, 0, 0),
      At(2026, 11, 2, 9, 15, 0, 0)>>

Day(y, m, d) == [y |-> y, m |-> m, d |-> d]

\* datetime.now().date()
DateOf(dt) == Day(dt.y, dt.m, dt.d)

DateLeq(a, b) == a = b \/ TupleLess(<<a.y, a.m, a.d>>, <<b.y, b.m, b.d>>)

Form(title, description, priority, category, due) ==
    [title |-> title, description |-> description, priority |-> priority,
     category |-> category, due |-> due]

\* What the user may have typed into the form when pressing "Add Task": a
\* complete form due on the second day of the clock, a form without a title
\* and a form without a description.
FormInputs ==
    { Form(<<"A", "b">>, <<"x">>, High, Work, Day(2026, 11, 1)),
      Form(<<>>, <<"x">>, Medium, School, Day(2026, 11, 1)),
      Form(<<"A", "b">>, <<>>, Low, Other, Day(2026, 11, 1)) }

\* What the user may type into the search box.
Queries == {<<>>, <<"B">>}

PriorityOptions == <<All, High, Medium, Low>>

SortOptions == <<"None", "Priority", "Due Date">>

\* Variant: the title is not looked at.
FormAcceptedUntitled(form, dtNow) ==
    /\ form.description # <<>>
    /\ DateLeq(DateOf(dtNow), form.due)

\* The condition under which main() creates the task (submit_button is
\* true in the run that handles the press).
FormAccepted(form, dtNow) ==
    /\ form.title # <<>>
    /\ form.description # <<>>
    /\ DateLeq(DateOf(dtNow), form.due)

new_task(ts, form, dtNow) ==
    [id |-> generate_unique_id(ts),
     title |-> form.title,
     description |-> form.description,
     priority |-> form.priority,
     category |-> form.category,
     due_date |-> StrfDate(form.due),
     completed |-> FALSE,
     created_at |-> StrfCreatedAt(dtNow)]

\* The options of the "Filter by Category" selectbox.
CategoryOptions(ts) == {All} \cup {ts[i].category : i \in DOMAIN ts}

\* A selectbox returns one of its options: the user's choice, or the first
\* option when the choice is no longer offered.
Selectbox(choice, options, first) == IF choice \in options THEN choice ELSE first

HideCompleted(ts) == SelectSeq(ts, LAMBDA t : ~t.completed)

\* The filter pass before the search box; its result is overwritten.
FirstFilterPass(ts, w) ==
    LET a == IF w.filter_category # All
             THEN filter_tasks_by_category(ts, w.filter_category) ELSE ts
        b == IF w.filter_priority # All
             THEN filter_tasks_by_priority(a, w.filter_priority) ELSE a
    IN  IF ~w.show_completed THEN HideCompleted(b) ELSE b

\* Variant: with a query entered, the search result is shown as it is.
DisplayedSearchOnly(ts, w) ==
    LET searched  == IF w.search_query # <<>>
                     THEN search_tasks(ts, w.search_query) ELSE ts
        c == IF w.search_query # <<>> THEN searched ELSE FirstFilterPass(ts, w)
    IN  IF w.sort_option = "Priority" THEN sort_tasks_by_priority(c)
        ELSE IF w.sort_option = "Due Date" THEN sort_tasks_by_due_date(c)
        ELSE c

\* filtered_tasks as displayed: restarted from a copy of tasks, searched if a
\* query is entered, filtered, then sorted by the selected option.
Displayed(ts, w) ==
    LET discarded == FirstFilterPass(ts, w)
        restart   == ts
        searched  == IF w.search_query # <<>>
                     THEN search_tasks(restart, w.search_query) ELSE restart
        a == IF w.filter_category # All
             THEN filter_tasks_by_category(searched, w.filter_category)
             ELSE searched
        b == IF w.filter_priority # All
             THEN filter_tasks_by_priority(a, w.filter_priority) ELSE a
        c == IF ~w.show_completed THEN HideCompleted(b) ELSE b
    IN  IF w.sort_option = "Priority" THEN sort_tasks_by_priority(c)
        ELSE IF w.sort_option = "Due Date" THEN sort_tasks_by_due_date(c)
        ELSE c

\* The "Complete"/"Undo" button: the first task with the id is toggled.
RECURSIVE ToggleFirst(_, _)
ToggleFirst(ts, id) ==
    IF ts = <<>> THEN <<>>
    ELSE IF Head(ts).id = id
         THEN <<[Head(ts) EXCEPT !.completed = ~Head(ts).completed]>> \o Tail(ts)
         ELSE <<Head(ts)>> \o ToggleFirst(Tail(ts), id)

\* The "Delete" button
Without(ts, id) == SelectSeq(ts, LAMBDA t : t.id # id)

NoForm == <<>>

\* What a cycle did: the kind of event, the form submitted, the file and the
\* list load_tasks() returned when the cycle began, the id it took from
\* generate_unique_id (in a tuple; none is <<>>), whether it called
\* save_tasks, the reading of the clock, and the ids assigned before it.
Trace(kind, form, before, loaded, allocated, saved) ==
    [kind |-> kind, form |-> form, fileBefore |-> before, loaded |-> loaded,
     allocated |-> allocated, saved |-> saved, at |-> Clock[now],
     known |-> assigned]

\* The part of a run of main() after the form: the widgets are read and the
\* page is drawn from the list `ts`.  (The "Tasks Due Soon" banner is drawn
\* from get_due_soon_tasks(ts) and kept nowhere.)
Draw(ts, w) ==
    LET seen == [w EXCEPT !.filter_category =
                     Selectbox(w.filter_category, CategoryOptions(ts), All)]
    IN  /\ widgets' = seen
        /\ tasks' = ts
        /\ filtered_tasks' = Displayed(ts, seen)

DefaultWidgets ==
    [filter_category |-> All, filter_priority |-> All, show_completed |-> FALSE,
     search_query |-> <<>>, sort_option |-> "None"]

\* What tasks.json may hold when the application is first opened.
CorruptFile == FileOf(<<Tok("{"), <<"bare", "invalid">>, <<"bare", "json">>, Tok("}")>>)

InitialFiles == {NoFile, CorruptFile, FileOf(<<Tok("["), Tok("]")>>)}

NoCall == [op |-> "none"]

Init ==
    /\ file \in InitialFiles
    /\ now = 1
    /\ tasks = load_tasks(file).value
    /\ widgets = DefaultWidgets
    /\ filtered_tasks = Displayed(tasks, widgets)
    /\ assigned = {}
    /\ last = Trace("open", NoForm, file, tasks, <<>>, FALSE)
    /\ call = NoCall

\* The user presses "Add Task".
Submit(form) ==
    LET loaded == load_tasks(file)
        ok     == FormAccepted(form, Clock[now])
        task   == new_task(loaded.value, form, Clock[now])
        ts     == IF ok THEN Append(loaded.value, task) ELSE loaded.value
    IN  /\ loaded.error = "none"
        /\ ok => task.id <= MaxId
        /\ file' = IF ok THEN save_tasks(ts, file) ELSE file
        /\ assigned' = IF ok THEN assigned \cup {task.id} ELSE assigned
        /\ last' = Trace("submit", form, file, loaded.value,
                         IF ok THEN <<task.id>> ELSE <<>>, ok)
        /\ Draw(ts, widgets)
        /\ UNCHANGED <<now, call>>

\* The user changes one of the widgets above the list: main() runs again.
Rerun(w) ==
    LET loaded == load_tasks(file)
    IN  /\ loaded.error = "none"
        /\ last' = Trace("widget", NoForm, file, loaded.value, <<>>, FALSE)
        /\ Draw(loaded.value, w)
        /\ UNCHANGED <<file, now, assigned, call>>

ChooseCategory ==
    \E c \in CategoryOptions(tasks) :
        c # widgets.filter_category /\ Rerun([widgets EXCEPT !.filter_category = c])

ChoosePriority ==
    \E i \in DOMAIN PriorityOptions :
        /\ PriorityOptions[i] # widgets.filter_priority
        /\ Rerun([widgets EXCEPT !.filter_priority = PriorityOptions[i]])

TickShowCompleted ==
    Rerun([widgets EXCEPT !.show_completed = ~widgets.show_completed])

TypeQuery ==
    \E q \in Queries :
        q # widgets.search_query /\ Rerun([widgets EXCEPT !.search_query = q])

ChooseSort ==
    \E i \in DOMAIN SortOptions :
        /\ SortOptions[i] # widgets.sort_option
        /\ Rerun([widgets EXCEPT !.sort_option = SortOptions[i]])

\* The user presses the "Complete"/"Undo" button of the i-th displayed task:
\* the run that handles it toggles the task, saves and reruns main().
ClickComplete(i) ==
    LET loaded == load_tasks(file)
        shown  == Displayed(loaded.value, widgets)
        ts     == ToggleFirst(loaded.value, shown[i].id)
        saved  == save_tasks(ts, file)
        again  == load_tasks(saved)
    IN  /\ loaded.error = "none"
        /\ i \in DOMAIN shown
        /\ again.error = "none"
        /\ file' = saved
        /\ last' = Trace("complete", NoForm, file, loaded.value, <<>>, TRUE)
        /\ Draw(again.value, widgets)
        /\ UNCHANGED <<now, assigned, call>>

\* The user presses the "Delete" button of the i-th displayed task.
ClickDelete(i) ==
    LET loaded == load_tasks(file)
        shown  == Displayed(loaded.value, widgets)
        ts     == Without(loaded.value, shown[i].id)
        saved  == save_tasks(ts, file)
        again  == load_tasks(saved)
    IN  /\ loaded.error = "none"
        /\ i \in DOMAIN shown
        /\ again.error = "none"
        /\ file' = saved
        /\ last' = Trace("delete", NoForm, file, loaded.value, <<>>, TRUE)
        /\ Draw(again.value, widgets)
        /\ UNCHANGED <<now, assigned, call>>

\* Time passes between two cycles.
Tick ==
    /\ now < Len(Clock)
    /\ now' = now + 1
    /\ UNCHANGED <<file, tasks, widgets, filtered_tasks, last, assigned, call>>

\* The cycles that change the collection, with the list filters left as the
\* page opens them but for "Show Completed Tasks".
Next ==
    \/ \E form \in FormInputs : Submit(form)
    \/ TickShowCompleted
    \/ \E i \in 1..MaxId : ClickComplete(i)
    \/ \E i \in 1..MaxId : ClickDelete(i)
    \/ Tick

Spec == Init /\ [][Next]_vars

-----------------------------------------------------------------------------
(* The page over a stored collection: the filter, search and sort widgets   *)

\* Longest stored collection the page is opened on.
MaxShown == 2

Stored(title, description, priority, category, due, completed) ==
    [title |-> title, description |-> description, priority |-> priority,
     category |-> category, due_date |-> StrfDate(due), completed |-> completed,
     created_at |-> StrfCreatedAt(Clock[1])]

\* Tasks the stored collection is drawn from (ids are given by position).
ViewShapes ==
    { Stored(<<"A", "b">>, <<"x">>, High, Work, Day(2026, 11, 2), FALSE),
      Stored(<<"c">>, <<"a", "B">>, Low, Personal, Day(2026, 11, 1), TRUE),
      Stored(<<"c">>, <<"x">>, Medium, Work, Day(2026, 10, 31), FALSE) }

\* The lists of at most n tasks of a set of shapes, numbered from 1.
ListsOf(shapes, n) ==
    UNION { { [i \in 1..k |-> [id |-> i] @@ f[i]] : f \in [1..k -> shapes] }
            : k \in 0..n }

InitView ==
    /\ file \in {save_tasks(ts, NoFile) : ts \in ListsOf(ViewShapes, MaxShown)}
    /\ now = 1
    /\ tasks = load_tasks(file).value
    /\ widgets = DefaultWidgets
    /\ filtered_tasks = Displayed(tasks, widgets)
    /\ assigned = {}
    /\ last = Trace("open", NoForm, file, tasks, <<>>, FALSE)
    /\ call = NoCall

NextView ==
    \/ ChooseCategory
    \/ ChoosePriority
    \/ TickShowCompleted
    \/ TypeQuery
    \/ ChooseSort

SpecView == InitView /\ [][NextView]_vars

-----------------------------------------------------------------------------
(* Direct calls of the query functions                                     *)

\* The readings of datetime.now() a query is called at: an afternoon, the
\* following midnight to the microsecond, and the microsecond after it.
Moments ==
    <<At(2026, 10, 31, 12, 30, 5, 0),
      At(2026, 11, 1, 0, 0, 0, 0),
      At(2026, 11, 1, 0, 0, 0, 1)>>

Due(text) == [due_date |-> text]

Done(flag) == [completed |-> flag]

\* Tasks a queried list is drawn from: with and without the completed key,
\* with a due date that is well formed, written without leading zeros, no
\* date at all, or missing.
QueryShapes ==
    { Done(FALSE) @@ Due(StrfDate(Day(2026, 10, 31))),
      Done(FALSE) @@ Due(StrfDate(Day(2026, 11, 1))),
      Done(FALSE) @@ Due(StrfDate(Day(2026, 11, 2))),
      Done(FALSE) @@ Due(<<"2", "0", "2", "6", "-", "9", "-", "3", "0">>),
      Done(FALSE) @@ Due(<<"1", "/", "2">>),
      Done(FALSE),
      Done(TRUE) @@ Due(StrfDate(Day(2026, 10, 31))),
      Done(TRUE) @@ Due(StrfDate(Day(2026, 11, 1))),
      Due(StrfDate(Day(2026, 10, 31))),
      Due(StrfDate(Day(2026, 11, 2))) }

Idle ==
    /\ file = NoFile
    /\ now = 1
    /\ tasks = <<>>
    /\ widgets = DefaultWidgets
    /\ filtered_tasks = <<>>
    /\ assigned = {}
    /\ last = Trace("open", NoForm, NoFile, <<>>, <<>>, FALSE)

InitQuery ==
    /\ Idle
    /\ call \in {[op |-> "none", tasks |-> ts] : ts \in ListsOf(QueryShapes, MaxLen)}

Returned(op, result) == [op |-> op, tasks |-> call.tasks, result |-> result]

CallOverdue ==
    /\ \E m \in DOMAIN Moments :
          call' = Returned("get_overdue_tasks",
                           get_overdue_tasks(call.tasks, Moments[m]))
                  @@ [moment |-> Moments[m]]
    /\ UNCHANGED <<file, tasks, now, widgets, filtered_tasks, last, assigned>>

CallDueSoon ==
    /\ \E m \in DOMAIN Moments :
          call' = Returned("get_due_soon_tasks",
                           get_due_soon_tasks(call.tasks, Moments[m]))
                  @@ [moment |-> Moments[m]]
    /\ UNCHANGED <<file, tasks, now, widgets, filtered_tasks, last, assigned>>

CallFilterCompletion ==
    /\ \E c \in BOOLEAN :
          call' = Returned("filter_tasks_by_completion",
                           filter_tasks_by_completion(call.tasks, c))
                  @@ [completed |-> c]
    /\ UNCHANGED <<file, tasks, now, widgets, filtered_tasks, last, assigned>>

CallSortDueDate ==
    /\ call' = Returned("sort_tasks_by_due_date", sort_tasks_by_due_date(call.tasks))
    /\ UNCHANGED <<file, tasks, now, widgets, filtered_tasks, last, assigned>>

NextQuery ==
    \/ CallOverdue
    \/ CallDueSoon
    \/ CallFilterCompletion
    \/ CallSortDueDate

SpecQuery == InitQuery /\ [][NextQuery]_vars

-----------------------------------------------------------------------------
(* Direct calls of the store                                               *)

\* Longest collection passed to save_tasks.
MaxSaved == 2

\* Well-formed tasks a saved collection is drawn from.
StoreShapes ==
    { Stored(<<"A", "b">>, <<"x">>, High, Work, Day(2026, 11, 2), FALSE),
      Stored(<<"c", "\"", "\\">>, <<"\\", "\\", "\"">>, Low, Personal,
             Day(2026, 11, 1), TRUE) }

\* Contents that are not JSON: the text of test_load_tasks_invalid_json, an
\* empty file, a document cut short, a comma before the closing bracket,
\* text after the document, and a string with an escape JSON does not have.
InvalidFiles ==
    { CorruptFile,
      FileOf(<<>>),
      FileOf(<<Tok("["), <<"ws", 2>>, Tok("{"), <<"ws", 4>>, <<"str", "id">>,
               Tok(":"), <<"int", 1>>>>),
      FileOf(<<Tok("["), <<"int", 1>>, Tok(","), Tok("]")>>),
      FileOf(<<Tok("["), Tok("]"), Tok("]")>>),
      FileOf(<<Tok("["), <<"str", <<"\\", "x">>>>, Tok("]")>>) }

StoreFiles ==
    {NoFile} \cup InvalidFiles
    \cup {FileOf(json_dump(ts)) : ts \in ListsOf(StoreShapes, 1)}

InitStore ==
    /\ file \in StoreFiles
    /\ now = 1
    /\ tasks = <<>>
    /\ widgets = DefaultWidgets
    /\ filtered_tasks = <<>>
    /\ assigned = {}
    /\ last = Trace("open", NoForm, NoFile, <<>>, <<>>, FALSE)
    /\ call = [op |-> "none", saved |-> <<>>, over |-> NoFile]

\* save_tasks(ts) is called; `saved` remembers the collection (in a tuple)
\* and `over` the file it replaced.
CallSave ==
    /\ \E ts \in ListsOf(StoreShapes, MaxSaved) :
          /\ file' = save_tasks(ts, file)
          /\ call' = [op |-> "save_tasks", saved |-> <<ts>>, over |-> file]
    /\ UNCHANGED <<tasks, now, widgets, filtered_tasks, last, assigned>>

\* load_tasks() is called.
CallLoad ==
    /\ call' = [op |-> "load_tasks", saved |-> call.saved, over |-> call.over,
                before |-> file,
                returned |-> load_tasks(file).value,
                error |-> load_tasks(file).error]
    /\ UNCHANGED <<file, tasks, now, widgets, filtered_tasks, last, assigned>>

NextStore == CallSave \/ CallLoad

SpecStore == InitStore /\ [][NextStore]_vars

-----------------------------------------------------------------------------
(* Properties                                                              *)

Ids(ts) == {ts[i].id : i \in DOMAIN ts}

Created == last.kind = "submit" /\ last.allocated # <<>>

\* C1, as stated: an id that was once assigned to a task is never assigned
\* again to a later-created task, also after the task that held it has been
\* deleted.
C1_NeverAssignedAgain == Created => last.allocated[1] \notin last.known

\* C1, amended: the id given to a created task is greater than the id of
\* every task in the collection at that moment, so no id that a remaining
\* task holds, and no gap below one, is assigned; an id above every
\* remaining id may be assigned again.
C1_AboveEveryCurrentId ==
    Created => \A i \in DOMAIN last.loaded : last.loaded[i].id < last.allocated[1]

\* A task is created in a collection that is not empty after some task has
\* been deleted.
C1_Witness ==
    /\ Created
    /\ last.loaded # <<>>
    /\ last.known \ Ids(last.loaded) # {}

\* C2: any two tasks of the collection have different ids, and the id
\* generate_unique_id returns (1 for the empty collection, else 1 + the
\* greatest id) is the id of no task of the collection.
C2_IdsDistinct ==
    LET next == generate_unique_id(tasks)
    IN  /\ \A i, j \in DOMAIN tasks : i # j => tasks[i].id # tasks[j].id
        /\ next \notin Ids(tasks)
        /\ tasks = <<>> => next = 1
        /\ tasks # <<>> => /\ next - 1 \in Ids(tasks)
                           /\ \A id \in Ids(tasks) : id <= next - 1

\* Two tasks, the second created after the first was completed and after a
\* task had been deleted.
C2_Witness ==
    /\ Created
    /\ Len(tasks) = 2
    /\ tasks[1].completed
    /\ last.known \ Ids(last.loaded) # {}

Matches(t, query) ==
    \/ Contains(Lower(t.title), Lower(query))
    \/ Contains(Lower(t.description), Lower(query))

Shown(t) ==
    /\ widgets.search_query # <<>> => Matches(t, widgets.search_query)
    /\ widgets.filter_category # All => t.category = widgets.filter_category
    /\ widgets.filter_priority # All => t.priority = widgets.filter_priority
    /\ ~widgets.show_completed => ~t.completed

\* C9: the displayed list is the full collection reduced to the tasks that
\* match the query (if one is entered), the chosen category and priority
\* (if not "All") and, unless completed tasks are shown, are not completed,
\* in the order of the selected sort; every displayed task satisfies the
\* query and the filters.
C9_DisplayedIsPipeline ==
    LET kept == SelectSeq(tasks, Shown)
    IN  /\ filtered_tasks =
              IF widgets.sort_option = "Priority" THEN sort_tasks_by_priority(kept)
              ELSE IF widgets.sort_option = "Due Date" THEN sort_tasks_by_due_date(kept)
              ELSE kept
        /\ \A i \in DOMAIN filtered_tasks : Shown(filtered_tasks[i])

\* A query, a category and a priority are chosen and a sort is selected;
\* some task is displayed and some is not.
C9_Witness ==
    /\ widgets.search_query # <<>>
    /\ widgets.filter_category # All
    /\ widgets.filter_priority # All
    /\ widgets.sort_option # "None"
    /\ filtered_tasks # <<>>
    /\ Len(filtered_tasks) < Len(tasks)

Earlier(a, b) == TupleLess(<<a.y, a.m, a.d>>, <<b.y, b.m, b.d>>)

Invalid(form, dt) ==
    \/ form.title = <<>>
    \/ form.description = <<>>
    \/ Earlier(form.due, DateOf(dt))

\* C10: a submission with an empty title, an empty description or a due
\* date before today allocates no id, appends nothing, does not save and
\* leaves the collection and the file as they were; every task of the
\* collection has a title and a description, and a task just created has
\* completed = false.
C10_InvalidFormRejected ==
    /\ (last.kind = "submit" /\ Invalid(last.form, last.at)) =>
           /\ last.allocated = <<>>
           /\ ~last.saved
           /\ tasks = last.loaded
           /\ file = last.fileBefore
    /\ \A i \in DOMAIN tasks :
           tasks[i].title # <<>> /\ tasks[i].description # <<>>
    /\ Created =>
           /\ tasks[Len(tasks)].id = last.allocated[1]
           /\ ~tasks[Len(tasks)].completed

\* A complete form whose due date has passed is submitted while the
\* collection holds a task.
C10_Witness ==
    /\ last.kind = "submit"
    /\ last.form.title # <<>>
    /\ last.form.description # <<>>
    /\ Earlier(last.form.due, DateOf(last.at))
    /\ last.loaded # <<>>
    /\ tasks = last.loaded

Parses(t) == strptime(Get(t, "due_date", <<>>)).ok

DueOf(t) == strptime(Get(t, "due_date", <<>>)).dt

NotCompleted(t) == ~Get(t, "completed", FALSE)

\* C3: get_overdue_tasks returns, in input order, exactly the tasks that
\* are not completed and whose due date parses and is a day before the
\* reference date; tasks without a due date or with a malformed one are
\* left out.
C3_OverdueExact ==
    call.op = "get_overdue_tasks" =>
        call.result = SelectSeq(call.tasks, LAMBDA t :
                          /\ NotCompleted(t)
                          /\ Parses(t)
                          /\ Earlier(DueOf(t), DateOf(call.moment)))

\* C4: filter_tasks_by_completion(tasks, c) returns, in input order,
\* exactly the tasks whose completed flag is c, a task without the flag
\* counting as not completed.
C4_MissingFlagIsFalse ==
    call.op = "filter_tasks_by_completion" =>
        call.result = SelectSeq(call.tasks, LAMBDA t :
                          Get(t, "completed", FALSE) = call.completed)

C8_SortByDueDate ==
    call.op = "sort_tasks_by_due_date" =>
        LET r == call.result
        IN  /\ Len(r) = Len(call.tasks)
            /\ \A i \in DOMAIN call.tasks : \E j \in DOMAIN r : r[j] = call.tasks[i]
            /\ \A i, j \in DOMAIN r :
                 i < j =>
                   /\ Parses(r[j]) => Parses(r[i]) /\ ~DtLess(DueOf(r[j]), DueOf(r[i]))
                   /\ (~Parses(r[i]) /\ ~Parses(r[j])) => r[i].id < r[j].id
                   /\ (Parses(r[i]) /\ Parses(r[j]) /\ DueOf(r[i]) = DueOf(r[j]))
                        => r[i].id < r[j].id

\* The sort moved a task with a valid date in front of a task without one.
C8_Witness ==
    /\ call.op = "sort_tasks_by_due_date"
    /\ Len(call.result) = 2
    /\ call.result # call.tasks
    /\ Parses(call.result[1])
    /\ ~Parses(call.result[2])

\* C5: load_tasks after save_tasks returns the collection that was saved,
\* whatever the file held before the save.
C5_RoundTrip ==
    (call.op = "load_tasks" /\ call.saved # <<>>) =>
        call.error = "none" /\ call.returned = call.saved[1]

\* Two tasks were saved over a file that was not JSON, and loaded.
C5_Witness ==
    /\ call.op = "load_tasks"
    /\ call.saved # <<>>
    /\ Len(call.saved[1]) = 2
    /\ call.over \in InvalidFiles
    /\ call.returned = call.saved[1]

\* C6: load_tasks returns the empty list, and raises nothing, when there is
\* no file and when the file is not JSON; it leaves the file as it was.
C6_LoadToleratesBadFile ==
    call.op = "load_tasks" =>
        /\ file = call.before
        /\ call.before \in {NoFile} \cup InvalidFiles =>
               call.returned = <<>> /\ call.error = "none"

\* load_tasks was called on a file that is not JSON.
C6_Witness ==
    /\ call.op = "load_tasks"
    /\ call.before \in InvalidFiles
    /\ call.returned = <<>>

=============================================================================
